---- MODULE Spec2Model ----
(***************************************************************************)
(* Turn/phase state machine and rules engine of the Universus simulator:   *)
(* GameEngine (src/src/game/GameEngine.ts), TurnManager and CombatManager  *)
(* (src/src/game/GamePhases.ts), Player (src/unnamed/part_002), the zones  *)
(* (src/src/models/Zone.ts), the card state (src/src/models/Card.ts) and   *)
(* the game board's handlers (src/client/src/components).                  *)
(*                                                                         *)
(* Objects are modelled as records, one variable per object owned by the   *)
(* engine.  Every method is an operator from the engine's state (the       *)
(* record Engine) to the state after the call and the value returned; the  *)
(* actions apply these operators to inputs drawn from small sets.          *)
(*                                                                         *)
(* Spec follows the engine's turn and combat operations, CommitSpec adds   *)
(* commitFoundations and performCheck, TableSpec adds the players' own     *)
(* methods and the board's handlers, WinSpec follows damage and winning.   *)
(***************************************************************************)
EXTENDS Integers, Sequences, FiniteSets, TLC

(* ------------------------------ bounds -------------------------------- *)

\* cards handed to setupGame for each player
CardsPerPlayer == 2
\* largest printed hand size of a character
MaxHandSize == 1
\* number of engine calls made on the constructed engine
MaxOps == 5
\* health of a character at construction
MaxHealth == 1

(* ----------------------------- constants ------------------------------ *)

\* Player.getHandSize: fallback of `character?.handSize || 6`
DefaultHandSize == 6

REVIEW == "review"
READY == "ready"
COMBAT == "combat"
END == "end"

REVIEW_START == "review_start"
REVIEW_DISCARD == "review_discard"
REVIEW_DRAW == "review_draw"
READY_START == "ready_start"
READY_CARDS == "ready_cards"
READY_MAIN == "ready_main"
COMBAT_START == "combat_start"
TURN_END == "turn_end"

SETUP == "setup"
IN_PROGRESS == "in_progress"
FINISHED == "finished"

(* ------------------------------- cards -------------------------------- *)

\* card instances: player 1 owns 1..CardsPerPlayer, player 2 the rest
Cards == 1 .. (2 * CardsPerPlayer)
CardsOf(p) == ((p - 1) * CardsPerPlayer + 1) .. (p * CardsPerPlayer)

\* player ids the engine is constructed with, and ids a caller may pass
Players == {1, 2}
CallerIds == {1, 2}

(* ------------------------------- zones -------------------------------- *)

\* CardZone.contains
contains(cards, card) == \E i \in DOMAIN cards : cards[i] = card

\* Array.indexOf: 0 when absent (the source's -1)
indexOf(cards, card) ==
  IF contains(cards, card)
  THEN CHOOSE i \in DOMAIN cards :
         cards[i] = card /\ \A j \in 1 .. (i - 1) : cards[j] # card
  ELSE 0

\* CardZone.remove: splice out the first occurrence
remove(cards, card) ==
  LET index == indexOf(cards, card) IN
  IF index # 0
  THEN SubSeq(cards, 1, index - 1) \o SubSeq(cards, index + 1, Len(cards))
  ELSE cards

\* CardZone.add: push
add(cards, card) == Append(cards, card)

\* DiscardPile.addToTop: unshift
addToTop(cards, card) == <<card>> \o cards

\* CardZone.count
count(cards) == Len(cards)

\* Deck.drawMultiple: shift up to count cards off the top
RECURSIVE drawMultiple(_, _)
drawMultiple(deck, n) ==
  IF n <= 0 \/ deck = <<>>
  THEN [drawn |-> <<>>, deck |-> deck]
  ELSE LET rest == drawMultiple(Tail(deck), n - 1) IN
       [drawn |-> <<Head(deck)>> \o rest.drawn, deck |-> rest.deck]

(* ------------------------------- Card --------------------------------- *)

\* printed check value and difficulty of the card instances: a player's
\* i-th card has check i and difficulty i + 2
CheckOf(c) == ((c - 1) % CardsPerPlayer) + 1
DifficultyOf(c) == CheckOf(c) + 2

\* Zone enum values
ZONE_DECK == "deck"
ZONE_HAND == "hand"
ZONE_DISCARD == "discard"
ZONE_CARD_POOL == "card_pool"
ZONE_STAGE == "stage"
ZONE_IN_PLAY == "in_play"
ZONE_REMOVED == "removed"

\* printed block zone: a player's odd cards block mid, the even ones have
\* no block zone ("null")
BlockZoneOf(c) == IF CheckOf(c) % 2 = 1 THEN "mid" ELSE "null"

\* Card constructor (every model card is built as a FoundationCard)
NewCard(c) ==
  [check |-> CheckOf(c), baseDifficulty |-> DifficultyOf(c),
   baseBlockZone |-> BlockZoneOf(c),
   cardType |-> "foundation", zone |-> ZONE_DECK, committed |-> FALSE,
   progressiveDifficulty |-> 0, currentDifficulty |-> DifficultyOf(c),
   currentBlockZone |-> BlockZoneOf(c)]

\* Card.difficulty getter
difficulty(c) == c.currentDifficulty + c.progressiveDifficulty

\* reset that leaves the block zone as an effect has set it
reset_keepsBlockZone(c) ==
  [c EXCEPT !.committed = FALSE, !.progressiveDifficulty = 0,
            !.currentDifficulty = c.baseDifficulty]

\* Card.reset
reset(c) ==
  [c EXCEPT !.committed = FALSE, !.progressiveDifficulty = 0,
            !.currentDifficulty = c.baseDifficulty,
            !.currentBlockZone = c.baseBlockZone]

\* what a card effect may write into a card's mutable state: a raised
\* difficulty with a progressive difficulty, or another block zone
CardEffects(c) ==
  {[c EXCEPT !.currentDifficulty = c.baseDifficulty + 1,
             !.progressiveDifficulty = 1],
   [c EXCEPT !.currentBlockZone = "high"]}

\* Card.commit
commit(c) == [c EXCEPT !.committed = TRUE]

\* PlayArea.readyAll: reset() every card the play area holds
readyAll(card, playArea) ==
  [c \in Cards |-> IF contains(playArea, c) THEN reset(card[c]) ELSE card[c]]

\* PlayArea.commitCard: the card state after the call, and what it returns
commitCard(card, playArea, c) ==
  IF contains(playArea, c) /\ ~card[c].committed
  THEN [card |-> [card EXCEPT ![c] = commit(card[c])], result |-> TRUE]
  ELSE [card |-> card, result |-> FALSE]

\* PlayArea.getUncommittedFoundations
getUncommittedFoundations(card, playArea) ==
  SelectSeq(playArea, LAMBDA c : card[c].cardType = "foundation"
                                  /\ ~card[c].committed)

(* ------------------------------ Player -------------------------------- *)

\* a player's character is <<>> (null) or <<[handSize |-> ..]>>
hasCharacter(pl) == pl.character # <<>>

\* Player.getHandSize: `this.character?.handSize || 6`; 0 is falsy
getHandSize(pl) ==
  IF hasCharacter(pl) /\ pl.character[1].handSize # 0
  THEN pl.character[1].handSize
  ELSE DefaultHandSize

\* drawCards that puts the drawn cards into the hand last card first
RECURSIVE Reversed(_)
Reversed(cards) ==
  IF cards = <<>> THEN <<>> ELSE Append(Reversed(Tail(cards)), Head(cards))

drawCards_reversed(pl, n) ==
  LET d == drawMultiple(pl.deck, n) IN
  [pl EXCEPT !.deck = d.deck, !.hand = pl.hand \o Reversed(d.drawn)]

\* drawCards that leaves the drawn cards on the deck as well
drawCards_keepsDeck(pl, n) ==
  [pl EXCEPT !.hand = pl.hand \o drawMultiple(pl.deck, n).drawn]

\* Player.drawCards
drawCards(pl, n) ==
  LET d == drawMultiple(pl.deck, n) IN
  [pl EXCEPT !.deck = d.deck, !.hand = pl.hand \o d.drawn]

\* Player.drawToHandSize
drawToHandSize(pl) ==
  LET handSize == getHandSize(pl)
      currentHandSize == count(pl.hand)
      toDraw == IF handSize - currentHandSize > 0
                THEN handSize - currentHandSize ELSE 0
  IN drawCards(pl, toDraw)

\* DiscardPile.peekTop: `this.cards[0] || null`, 0 for null
peekTop(cards) == IF cards = <<>> THEN 0 ELSE cards[1]

\* Player.discardCard: the player after the call, and what it returns
discardCard(pl, c) ==
  IF contains(pl.hand, c)
  THEN [player |-> [pl EXCEPT !.hand = remove(pl.hand, c),
                              !.discard = addToTop(pl.discard, c)],
        result |-> TRUE]
  ELSE [player |-> pl, result |-> FALSE]

\* Player.discardHand: for each card of a copy of the hand, in order
RECURSIVE discardEach(_, _)
discardEach(pl, cards) ==
  IF cards = <<>>
  THEN pl
  ELSE discardEach([pl EXCEPT !.hand = remove(pl.hand, Head(cards)),
                              !.discard = addToTop(pl.discard, Head(cards))],
                   Tail(cards))

discardHand(pl) == discardEach(pl, pl.hand)

\* a swap that copies cards[j] to cards[i] and loses what was there
swap_overwrites(cards, i, j) == [cards EXCEPT ![i] = cards[j]]

\* `[cards[i], cards[j]] = [cards[j], cards[i]]`
swap(cards, i, j) == [cards EXCEPT ![i] = cards[j], ![j] = cards[i]]

\* Deck.shuffle's loop from position i down (positions count from 1):
\* Math.random picks any j up to i; the lists the loop may leave
RECURSIVE shuffleFrom(_, _)
shuffleFrom(cards, i) ==
  IF i <= 1 THEN {cards}
  ELSE UNION {shuffleFrom(swap(cards, i, j), i - 1) : j \in 1 .. i}

\* Deck.shuffle
shuffle(cards) == shuffleFrom(cards, Len(cards))

\* Player.shuffleDiscardIntoDeck: the players it may leave
shuffleDiscardIntoDeck(pl) ==
  {[pl EXCEPT !.discard = <<>>, !.deck = shuffled] :
     shuffled \in shuffle(pl.deck \o pl.discard)}

\* CharacterCard.takeDamage / heal, through Player.takeDamage / heal
takeDamage(pl, amount) ==
  IF hasCharacter(pl)
  THEN [pl EXCEPT !.character[1].currentHealth =
                    IF @ - amount > 0 THEN @ - amount ELSE 0]
  ELSE pl

heal(pl, amount) ==
  IF hasCharacter(pl)
  THEN [pl EXCEPT !.character[1].currentHealth =
                    IF @ + amount < pl.character[1].maxHealth
                    THEN @ + amount ELSE pl.character[1].maxHealth]
  ELSE pl

(* ---------------------------- TurnManager ----------------------------- *)

\* startTurn that forgets to count the turn
startTurn_noIncrement(tm) == [tm EXCEPT !.phase = REVIEW, !.step = REVIEW_START]

\* TurnManager.startTurn
startTurn(tm) ==
  [tm EXCEPT !.turnNumber = tm.turnNumber + 1,
             !.phase = REVIEW, !.step = REVIEW_START]

\* endTurn that forgets to switch the active player
endTurn_noSwap(tm) == [tm EXCEPT !.phase = END, !.step = TURN_END]

\* TurnManager.endTurn
endTurn(tm) ==
  [tm EXCEPT !.phase = END, !.step = TURN_END,
             !.activePlayer = tm.opponent, !.opponent = tm.activePlayer]

\* advancePhase that leaves the step as it is on the way to Ready and Combat
advancePhase_keepsStep(tm) ==
  CASE tm.phase = REVIEW -> [tm EXCEPT !.phase = READY]
    [] tm.phase = READY -> [tm EXCEPT !.phase = COMBAT]
    [] tm.phase = COMBAT -> endTurn(tm)
    [] tm.phase = END -> startTurn(tm)

\* TurnManager.advancePhase
advancePhase(tm) ==
  CASE tm.phase = REVIEW -> [tm EXCEPT !.phase = READY, !.step = READY_START]
    [] tm.phase = READY -> [tm EXCEPT !.phase = COMBAT, !.step = COMBAT_START]
    [] tm.phase = COMBAT -> endTurn(tm)
    [] tm.phase = END -> startTurn(tm)

\* processReviewPhase with its two steps in the other order
processReviewPhase_drawFirst(e) ==
  LET a == e.turnManager.activePlayer IN
  [e EXCEPT !.turnManager.phase = REVIEW,
            !.turnManager.step = REVIEW_DRAW,
            !.player[a] = discardHand(drawToHandSize(e.player[a]))]

\* TurnManager.processReviewPhase, on the engine state e
processReviewPhase(e) ==
  LET a == e.turnManager.activePlayer IN
  [e EXCEPT !.turnManager.phase = REVIEW,
            !.turnManager.step = REVIEW_DRAW,
            !.player[a] = drawToHandSize(discardHand(e.player[a]))]

\* processReadyPhase that readies no card
processReadyPhase_noReset(e) ==
  [e EXCEPT !.turnManager.phase = READY, !.turnManager.step = READY_MAIN]

\* processReadyPhase that readies the play areas of both players
processReadyPhase_readiesBoth(e) ==
  [e EXCEPT !.turnManager.phase = READY,
            !.turnManager.step = READY_MAIN,
            !.card = readyAll(readyAll(e.card, e.player[1].playArea),
                              e.player[2].playArea)]

\* TurnManager.processReadyPhase, on the engine state e
processReadyPhase(e) ==
  LET a == e.turnManager.activePlayer IN
  [e EXCEPT !.turnManager.phase = READY,
            !.turnManager.step = READY_MAIN,
            !.card = readyAll(e.card, e.player[a].playArea)]

\* TurnManager.getState / GameEngine.getGameState
getGameState(e) ==
  [currentPhase |-> e.turnManager.phase,
   currentStep |-> e.turnManager.step,
   activePlayerId |-> e.turnManager.activePlayer,
   turnNumber |-> e.turnManager.turnNumber,
   priorityPlayerId |-> e.turnManager.activePlayer]

(* --------------------------- CombatManager ---------------------------- *)

\* currentAttack is <<>> (null) or <<AttackState>>

\* CombatManager.hasActiveAttack
hasActiveAttack(cm) ==
  cm.currentAttack # <<>> /\ ~cm.currentAttack[1].resolved

\* declareAttack that keeps an attack that is still open
cmDeclareAttack_keepsOpen(cm, attackerId, defenderId, attackCard) ==
  IF hasActiveAttack(cm) THEN cm
  ELSE [cm EXCEPT !.currentAttack =
          <<[attackerId |-> attackerId, defenderId |-> defenderId,
             attackCard |-> attackCard, blockCard |-> 0, resolved |-> FALSE]>>]

\* CombatManager.declareAttack
cmDeclareAttack(cm, attackerId, defenderId, attackCard) ==
  [cm EXCEPT !.currentAttack =
     <<[attackerId |-> attackerId, defenderId |-> defenderId,
        attackCard |-> attackCard, blockCard |-> 0, resolved |-> FALSE]>>]

\* CombatManager.declareBlock
cmDeclareBlock(cm, blockCard) ==
  IF cm.currentAttack # <<>>
  THEN [cm EXCEPT !.currentAttack[1].blockCard = blockCard]
  ELSE cm

(* ----------------------------- GameEngine ----------------------------- *)

\* GameEngine.getPlayer: `playerId === 1 ? this.player1 : this.player2`
getPlayer(playerId) == IF playerId = 1 THEN 1 ELSE 2

\* Player.isDefeated: `this.character?.isDefeated() || false`
isDefeated(pl) == hasCharacter(pl) /\ pl.character[1].currentHealth <= 0

\* checkWinConditions that looks at player 2 first
checkWinConditions_player2First(e) ==
  IF isDefeated(e.player[2])
  THEN [e EXCEPT !.status = FINISHED, !.winner = 1]
  ELSE IF isDefeated(e.player[1])
       THEN [e EXCEPT !.status = FINISHED, !.winner = 2]
       ELSE e

\* checkWinConditions that finishes the game without naming a winner
checkWinConditions_noWinner(e) ==
  IF isDefeated(e.player[1]) \/ isDefeated(e.player[2])
  THEN [e EXCEPT !.status = FINISHED]
  ELSE e

\* GameEngine.checkWinConditions
checkWinConditions(e) ==
  IF isDefeated(e.player[1])
  THEN [e EXCEPT !.status = FINISHED, !.winner = 2]
  ELSE IF isDefeated(e.player[2])
       THEN [e EXCEPT !.status = FINISHED, !.winner = 1]
       ELSE e

\* startGame without its status check
startGame_unguarded(e) ==
  LET p1 == drawCards(e.player[1], getHandSize(e.player[1]))
      p2 == drawCards(e.player[2], getHandSize(e.player[2]))
  IN [engine |-> [e EXCEPT !.player[1] = p1, !.player[2] = p2,
                           !.status = IN_PROGRESS,
                           !.turnManager = startTurn(e.turnManager)],
      result |-> "ok"]

\* GameEngine.startGame; result "throw" is the thrown Error
startGame(e) ==
  IF e.status # SETUP
  THEN [engine |-> e, result |-> "throw"]
  ELSE LET p1 == drawCards(e.player[1], getHandSize(e.player[1]))
           p2 == drawCards(e.player[2], getHandSize(e.player[2]))
       IN [engine |-> [e EXCEPT !.player[1] = p1, !.player[2] = p2,
                                !.status = IN_PROGRESS,
                                !.turnManager = startTurn(e.turnManager)],
           result |-> "ok"]

\* playFoundation without its phase check
playFoundation_anyPhase(e, playerId, card) ==
  LET p == getPlayer(playerId) IN
  IF ~contains(e.player[p].hand, card)
  THEN [engine |-> e, result |-> FALSE]
  ELSE [engine |-> [e EXCEPT !.player[p].hand = remove(e.player[p].hand, card),
                             !.player[p].playArea = add(e.player[p].playArea, card)],
        result |-> TRUE]

\* GameEngine.playFoundation
playFoundation(e, playerId, card) ==
  LET p == getPlayer(playerId) IN
  IF e.turnManager.phase # READY
  THEN [engine |-> e, result |-> FALSE]
  ELSE IF ~contains(e.player[p].hand, card)
  THEN [engine |-> e, result |-> FALSE]
  ELSE [engine |-> [e EXCEPT !.player[p].hand = remove(e.player[p].hand, card),
                             !.player[p].playArea = add(e.player[p].playArea, card)],
        result |-> TRUE]

\* playAsset that takes the card out of the hand before checking the phase
playAsset_removesFirst(e, playerId, card) ==
  LET p == getPlayer(playerId)
      taken == [e EXCEPT !.player[p].hand = remove(e.player[p].hand, card)]
  IN
  IF ~contains(e.player[p].hand, card)
  THEN [engine |-> e, result |-> FALSE]
  ELSE IF e.turnManager.phase # READY
  THEN [engine |-> taken, result |-> FALSE]
  ELSE [engine |-> [taken EXCEPT !.player[p].playArea =
                                    add(e.player[p].playArea, card)],
        result |-> TRUE]

\* GameEngine.playAsset
playAsset(e, playerId, card) ==
  LET p == getPlayer(playerId) IN
  IF e.turnManager.phase # READY
  THEN [engine |-> e, result |-> FALSE]
  ELSE IF ~contains(e.player[p].hand, card)
  THEN [engine |-> e, result |-> FALSE]
  ELSE [engine |-> [e EXCEPT !.player[p].hand = remove(e.player[p].hand, card),
                             !.player[p].playArea = add(e.player[p].playArea, card)],
        result |-> TRUE]

\* declareAttack that names the attacker as the defender
declareAttack_selfDefender(e, attackerId, attackCard) ==
  LET attacker == getPlayer(attackerId) IN
  IF e.turnManager.phase # COMBAT
  THEN [engine |-> e, result |-> FALSE]
  ELSE IF ~contains(e.player[attacker].hand, attackCard)
  THEN [engine |-> e, result |-> FALSE]
  ELSE [engine |->
          [e EXCEPT !.player[attacker].hand =
                       remove(e.player[attacker].hand, attackCard),
                    !.player[attacker].stagingArea =
                       add(e.player[attacker].stagingArea, attackCard),
                    !.combatManager =
                       cmDeclareAttack(e.combatManager, attackerId,
                                       attacker, attackCard)],
        result |-> TRUE]

\* GameEngine.declareAttack
declareAttack(e, attackerId, attackCard) ==
  LET attacker == getPlayer(attackerId)
      defender == getPlayer(IF attackerId = 1 THEN 2 ELSE 1)
  IN
  IF e.turnManager.phase # COMBAT
  THEN [engine |-> e, result |-> FALSE]
  ELSE IF ~contains(e.player[attacker].hand, attackCard)
  THEN [engine |-> e, result |-> FALSE]
  ELSE [engine |->
          [e EXCEPT !.player[attacker].hand =
                       remove(e.player[attacker].hand, attackCard),
                    !.player[attacker].stagingArea =
                       add(e.player[attacker].stagingArea, attackCard),
                    !.combatManager =
                       cmDeclareAttack(e.combatManager, attackerId,
                                       defender, attackCard)],
        result |-> TRUE]

\* declareBlock without its check for an open attack
declareBlock_noAttackCheck(e, defenderId, blockCard) ==
  LET defender == getPlayer(defenderId) IN
  IF ~contains(e.player[defender].hand, blockCard)
  THEN [engine |-> e, result |-> FALSE]
  ELSE [engine |->
          [e EXCEPT !.player[defender].hand =
                       remove(e.player[defender].hand, blockCard),
                    !.player[defender].stagingArea =
                       add(e.player[defender].stagingArea, blockCard),
                    !.combatManager =
                       cmDeclareBlock(e.combatManager, blockCard)],
        result |-> TRUE]

\* GameEngine.declareBlock
declareBlock(e, defenderId, blockCard) ==
  LET defender == getPlayer(defenderId) IN
  IF ~hasActiveAttack(e.combatManager)
  THEN [engine |-> e, result |-> FALSE]
  ELSE IF ~contains(e.player[defender].hand, blockCard)
  THEN [engine |-> e, result |-> FALSE]
  ELSE [engine |->
          [e EXCEPT !.player[defender].hand =
                       remove(e.player[defender].hand, blockCard),
                    !.player[defender].stagingArea =
                       add(e.player[defender].stagingArea, blockCard),
                    !.combatManager =
                       cmDeclareBlock(e.combatManager, blockCard)],
        result |-> TRUE]

RECURSIVE getTotalControl_sumsDifficulty(_, _)
\* getTotalControl that sums the difficulty of the cards
getTotalControl_sumsDifficulty(cardOf, cards) ==
  IF cards = <<>> THEN 0
  ELSE cardOf[Head(cards)].currentDifficulty
         + getTotalControl_sumsDifficulty(cardOf, Tail(cards))

\* CardPool.getTotalControl: the reduce over the pool's cards, cardOf
\* giving the card objects
RECURSIVE getTotalControl(_, _)
getTotalControl(cardOf, cards) ==
  IF cards = <<>> THEN 0
  ELSE cardOf[Head(cards)].check + getTotalControl(cardOf, Tail(cards))

\* GameEngine.performCheck: one turn of its while loop after another;
\* total is totalControl, revealed the cards revealed so far
RECURSIVE revealWhile(_, _, _, _, _)
revealWhile(e, p, difficultyToMeet, total, revealed) ==
  IF total < difficultyToMeet /\ e.player[p].deck # <<>>
  THEN LET c == Head(e.player[p].deck) IN
       revealWhile([e EXCEPT !.player[p].deck = Tail(e.player[p].deck),
                             !.player[p].cardPool = add(e.player[p].cardPool, c)],
                   p, difficultyToMeet, total + e.card[c].check,
                   Append(revealed, c))
  ELSE [engine |-> e, revealed |-> revealed,
        result |-> [success |-> total >= difficultyToMeet, total |-> total]]

\* performCheck that reveals until the sum is above the difficulty
performCheck_offByOne(e, playerId, difficultyToMeet) ==
  revealWhile(e, getPlayer(playerId), difficultyToMeet + 1, 0, <<>>)

\* performCheck that turns the discard pile into a new deck when the deck
\* is empty
performCheck_reshuffles(e, playerId, difficultyToMeet) ==
  LET p == getPlayer(playerId) IN
  revealWhile(IF e.player[p].deck = <<>>
              THEN [e EXCEPT !.player[p].deck = e.player[p].discard,
                             !.player[p].discard = <<>>]
              ELSE e,
              p, difficultyToMeet, 0, <<>>)

performCheck(e, playerId, difficultyToMeet) ==
  revealWhile(e, getPlayer(playerId), difficultyToMeet, 0, <<>>)

\* GameEngine.commitFoundations: the for loop over the listed cards
RECURSIVE commitFoundations(_, _, _)
\* commitFoundations that commits nothing unless every listed card is there
commitFoundations_atomic(e, playerId, foundations) ==
  LET playArea == e.player[getPlayer(playerId)].playArea
      listed == {foundations[i] : i \in DOMAIN foundations}
  IN IF \E c \in listed : ~contains(playArea, c)
     THEN [engine |-> e, result |-> FALSE]
     ELSE [engine |-> [e EXCEPT !.card = [c \in Cards |->
                         IF c \in listed THEN commit(e.card[c]) ELSE e.card[c]]],
           result |-> TRUE]

commitFoundations(e, playerId, foundations) ==
  LET p == getPlayer(playerId) IN
  IF foundations = <<>>
  THEN [engine |-> e, result |-> TRUE]
  ELSE IF ~contains(e.player[p].playArea, Head(foundations))
  THEN [engine |-> e, result |-> FALSE]
  ELSE commitFoundations(
         [e EXCEPT !.card = commitCard(e.card, e.player[p].playArea,
                                       Head(foundations)).card],
         playerId, Tail(foundations))

\* GameEngine.advancePhase
engineAdvancePhase(e) == [e EXCEPT !.turnManager = advancePhase(e.turnManager)]

\* GameEngine.endTurn
engineEndTurn(e) ==
  checkWinConditions([e EXCEPT !.turnManager = endTurn(e.turnManager)])

\* GameEngine.processTurn up to its first suspension.  `await` always
\* yields, so what follows it runs later, as a continuation: "advance"
\* (the advancePhase after processReviewPhase), "noop" (nothing follows
\* processReadyPhase) or "none" (the call ran to its end).
processTurn(e) ==
  CASE e.turnManager.phase = REVIEW ->
         [engine |-> processReviewPhase(e), continuation |-> "advance"]
    [] e.turnManager.phase = READY ->
         [engine |-> processReadyPhase(e), continuation |-> "noop"]
    [] e.turnManager.phase = COMBAT ->
         [engine |-> e, continuation |-> "none"]
    [] e.turnManager.phase = END ->
         LET c == checkWinConditions(e) IN
         [engine |-> IF c.status = IN_PROGRESS
                     THEN engineAdvancePhase(c) ELSE c,
          continuation |-> "none"]

\* the rest of processTurn after its await
resumeProcessTurn(e, continuation) ==
  IF continuation = "advance" THEN engineAdvancePhase(e) ELSE e

(* ----------------------------- game board ----------------------------- *)

\* GameBoard renders player 2's PlayerArea with isOpponent = true
isOpponent(p) == p = 2

\* the check state is <<>> (null) or <<CheckState>>; its revealedCheckCard
\* is 0 (null) or a card

\* PlayerArea, card-pool onDrop of the dragged card
dropOnCardPool(e, cs, p, draggedCard) ==
  IF ~isOpponent(p) /\ contains(e.player[p].hand, draggedCard)
  THEN [engine |-> [e EXCEPT !.player[p].hand = remove(@, draggedCard),
                             !.player[p].cardPool = add(@, draggedCard)],
        checkState |-> <<[cardBeingPlayed |-> draggedCard,
                          revealedCheckCard |-> 0,
                          requiredDifficulty |-> difficulty(e.card[draggedCard]),
                          foundationsCommitted |-> 0]>>]
  ELSE [engine |-> e, checkState |-> cs]

\* a Mill button that empties the deck whatever the count
mill_wholeDeck(e, p, millCount) ==
  [e EXCEPT !.player[p].deck = <<>>,
            !.player[p].discard = @ \o e.player[p].deck]

\* PlayerArea, Mill button: `parseInt(millCount) || 1`, at most the deck
mill(e, p, millCount) ==
  LET wanted == IF millCount = 0 THEN 1 ELSE millCount
      n == IF wanted < count(e.player[p].deck)
           THEN wanted ELSE count(e.player[p].deck)
      d == drawMultiple(e.player[p].deck, n)
  IN [e EXCEPT !.player[p].deck = d.deck,
               !.player[p].discard = @ \o d.drawn]

\* PlayerArea, Check button: reveals the top card of the deck
revealCheckCard(e, cs, p) ==
  IF cs # <<>> /\ cs[1].revealedCheckCard = 0 /\ e.player[p].deck # <<>>
  THEN LET c == Head(e.player[p].deck) IN
       [engine |-> [e EXCEPT !.player[p].deck = Tail(@),
                             !.player[p].discard = add(@, c)],
        checkState |-> <<[cs[1] EXCEPT !.revealedCheckCard = c]>>]
  ELSE [engine |-> e, checkState |-> cs]

\* GameBoard: cardPoolSize handed to TurnInfo, which hands it to
\* CheckPanel as maxFoundations
cardPoolSize(e) == count(e.player[1].cardPool)

\* CheckPanel
baseCheckValue(e, cs) ==
  IF cs[1].revealedCheckCard = 0 THEN 0 ELSE e.card[cs[1].revealedCheckCard].check

totalCheckValue(e, cs) == baseCheckValue(e, cs) + cs[1].foundationsCommitted

checkPassed(e, cs) == totalCheckValue(e, cs) >= cs[1].requiredDifficulty

foundationsNeeded(e, cs) ==
  IF cs[1].revealedCheckCard = 0 THEN 0
  ELSE IF cs[1].requiredDifficulty - baseCheckValue(e, cs) > 0
       THEN cs[1].requiredDifficulty - baseCheckValue(e, cs) ELSE 0

canPassWithFoundations(e, cs, maxFoundations) ==
  /\ cs[1].revealedCheckCard # 0
  /\ foundationsNeeded(e, cs) > 0
  /\ foundationsNeeded(e, cs) <= maxFoundations

(* ------------------------------- state -------------------------------- *)

VARIABLES
  config,         \* GameConfig the engine was constructed with
  player,         \* GameEngine.player1 / player2: [Players -> Player]
  card,           \* runtime state of every Card instance
  turnManager,    \* GameEngine.turnManager
  combatManager,  \* GameEngine.combatManager
  status,         \* GameEngine.status
  winner,         \* GameEngine.winner: a player id, 0 for null
  checkState,     \* GameBoard's checkState: <<>> for null
  pending,        \* continuations of suspended processTurn calls, in order
  lastCall,       \* the last engine call and what it returned
  opCount,        \* number of engine calls made so far
  maxCalls,       \* number of calls the run is followed for
  readied,        \* the bulk reset has run in the present Ready phase
  lastReadied     \* the cards the last step turned from committed to not

vars == <<config, player, card, turnManager, combatManager, status, winner,
          checkState, pending, lastCall, opCount, maxCalls, readied,
          lastReadied>>

\* the engine's state as one record
Engine ==
  [player |-> player, card |-> card, turnManager |-> turnManager,
   combatManager |-> combatManager, status |-> status, winner |-> winner]

\* null, or a character of some hand size at full health
Characters ==
  {<<>>} \cup {<<[handSize |-> h, currentHealth |-> MaxHealth,
                  maxHealth |-> MaxHealth]>> : h \in 0 .. MaxHandSize}

\* the deck setupGame leaves: the player's cards in some order.  The cards
\* of a player differ in nothing but identity, so one order stands for all.
SetupDeck(p) == [i \in 1 .. CardsPerPlayer |-> (p - 1) * CardsPerPlayer + i]

\* new Player, setCharacter (or not), setupGame(deckCards)
NewPlayer(character, deck) ==
  [character |-> character, deck |-> deck, hand |-> <<>>, discard |-> <<>>,
   cardPool |-> <<>>, stagingArea |-> <<>>, playArea |-> <<>>,
   removed |-> <<>>]

NoCall == [op |-> "none", result |-> "none"]

\* a boolean return value, as recorded in lastCall
Returned(b) == IF b THEN "true" ELSE "false"

\* the engine right after construction, in a run of so many calls
Constructed(calls) ==
  /\ maxCalls = calls
  /\ config \in [startingPlayer : Players]
  /\ \E ch \in [Players -> Characters] :
       player = [p \in Players |-> NewPlayer(ch[p], SetupDeck(p))]
  /\ card = [c \in Cards |-> NewCard(c)]
  /\ turnManager = [phase |-> REVIEW, step |-> REVIEW_START, turnNumber |-> 0,
                    activePlayer |-> config.startingPlayer,
                    opponent |-> IF config.startingPlayer = 1 THEN 2 ELSE 1]
  /\ combatManager = [currentAttack |-> <<>>]
  /\ status = SETUP
  /\ winner = 0
  /\ checkState = <<>>
  /\ pending = <<>>
  /\ lastCall = NoCall
  /\ opCount = 0
  /\ readied = FALSE
  /\ lastReadied = {}

Init == Constructed(MaxOps)

(* ------------------------------ actions ------------------------------- *)

\* whether the Ready phase reached in e2 has had its bulk reset:
\* ranReady says the step ran processReadyPhase
Readied(e1, e2, ranReady) ==
  IF ranReady THEN TRUE
  ELSE IF e1.turnManager.phase = READY /\ e2.turnManager.phase = READY
       THEN readied
       ELSE FALSE

\* the engine moves from its state to e2
Becomes(e2, ranReady) ==
  /\ player' = e2.player
  /\ card' = e2.card
  /\ turnManager' = e2.turnManager
  /\ combatManager' = e2.combatManager
  /\ status' = e2.status
  /\ winner' = e2.winner
  /\ readied' = Readied(Engine, e2, ranReady)
  /\ lastReadied' = {c \in Cards : card[c].committed /\ ~e2.card[c].committed}
  /\ UNCHANGED <<config, maxCalls>>

\* ... by the engine call op, which returned result
Call(e2, op, result, ranReady) ==
  /\ opCount < maxCalls
  /\ Becomes(e2, ranReady)
  /\ lastCall' = [op |-> op, result |-> result]
  /\ opCount' = opCount + 1
  /\ UNCHANGED checkState

StartGame ==
  LET r == startGame(Engine) IN
  /\ Call(r.engine, "startGame", r.result, FALSE)
  /\ UNCHANGED pending

ProcessTurn ==
  LET r == processTurn(Engine) IN
  /\ Call(r.engine, "processTurn", r.continuation, turnManager.phase = READY)
  /\ pending' = IF r.continuation = "none" THEN pending
                ELSE Append(pending, r.continuation)

ResumeProcessTurn ==
  /\ pending # <<>>
  /\ Becomes(resumeProcessTurn(Engine, Head(pending)), FALSE)
  /\ pending' = Tail(pending)
  /\ lastCall' = [op |-> "resume", result |-> Head(pending)]
  /\ UNCHANGED <<opCount, checkState>>

PlayFoundation ==
  \E playerId \in CallerIds, c \in Cards :
    LET r == playFoundation(Engine, playerId, c) IN
    /\ Call(r.engine, "playFoundation", Returned(r.result), FALSE)
    /\ UNCHANGED pending

PlayAsset ==
  \E playerId \in CallerIds, c \in Cards :
    LET r == playAsset(Engine, playerId, c) IN
    /\ Call(r.engine, "playAsset", Returned(r.result), FALSE)
    /\ UNCHANGED pending

DeclareAttack ==
  \E attackerId \in CallerIds, c \in Cards :
    LET r == declareAttack(Engine, attackerId, c) IN
    /\ Call(r.engine, "declareAttack", Returned(r.result), FALSE)
    /\ UNCHANGED pending

DeclareBlock ==
  \E defenderId \in CallerIds, c \in Cards :
    LET r == declareBlock(Engine, defenderId, c) IN
    /\ Call(r.engine, "declareBlock", Returned(r.result), FALSE)
    /\ UNCHANGED pending

AdvancePhase ==
  /\ Call(engineAdvancePhase(Engine), "advancePhase", "ok", FALSE)
  /\ UNCHANGED pending

EndTurn ==
  /\ Call(engineEndTurn(Engine), "endTurn", "ok", FALSE)
  /\ UNCHANGED pending

Next ==
  \/ StartGame
  \/ ProcessTurn
  \/ ResumeProcessTurn
  \/ PlayFoundation
  \/ PlayAsset
  \/ DeclareAttack
  \/ DeclareBlock
  \/ AdvancePhase
  \/ EndTurn

Spec == Init /\ [][Next]_vars

(* ------------------- the table: engine, players, board ----------------- *)

\* cards listed in calls of commitFoundations: player 1's cards and one
\* card of player 2
Listed == CardsOf(1) \cup {CardsPerPlayer + 1}

\* lists of cards handed to commitFoundations: no card, one card, or two
\* cards that may be the same one
FoundationLists ==
  {<<>>} \cup {<<a>> : a \in Listed} \cup {<<a, b>> : a, b \in Listed}

\* difficulties handed to performCheck: from below zero to beyond what a
\* whole deck adds up to
Difficulties == (0 - 1) .. ((CardsPerPlayer * (CardsPerPlayer + 1)) \div 2 + 1)

CommitFoundations ==
  \E playerId \in CallerIds, foundations \in FoundationLists :
    LET r == commitFoundations(Engine, playerId, foundations) IN
    /\ Call(r.engine, "commitFoundations", Returned(r.result), FALSE)
    /\ UNCHANGED pending

PerformCheck ==
  \E playerId \in CallerIds, difficultyToMeet \in Difficulties :
    LET r == performCheck(Engine, playerId, difficultyToMeet) IN
    /\ Call(r.engine, "performCheck", Returned(r.result.success), FALSE)
    /\ UNCHANGED pending

\* a call of a Player method on player p, which leaves that player as pl2
PlayerCall(p, pl2, op) ==
  /\ Call([Engine EXCEPT !.player[p] = pl2], op, "ok", FALSE)
  /\ UNCHANGED pending

DrawCards ==
  \E p \in Players, n \in 0 .. CardsPerPlayer :
    PlayerCall(p, drawCards(player[p], n), "drawCards")

DiscardHand ==
  \E p \in Players : PlayerCall(p, discardHand(player[p]), "discardHand")

ShuffleDiscardIntoDeck ==
  \E p \in Players : \E pl2 \in shuffleDiscardIntoDeck(player[p]) :
    PlayerCall(p, pl2, "shuffleDiscardIntoDeck")

TakeDamage ==
  \E p \in Players, amount \in 1 .. MaxHealth :
    PlayerCall(p, takeDamage(player[p], amount), "takeDamage")

Heal ==
  \E p \in Players, amount \in 1 .. MaxHealth :
    PlayerCall(p, heal(player[p], amount), "heal")

\* a handler of the game board, which leaves the engine as e2 and the
\* check state as cs2
BoardEvent(e2, cs2, op) ==
  /\ opCount < maxCalls
  /\ Becomes(e2, FALSE)
  /\ checkState' = cs2
  /\ lastCall' = [op |-> op, result |-> "ok"]
  /\ opCount' = opCount + 1
  /\ UNCHANGED pending

DropOnCardPool ==
  \E p \in Players, draggedCard \in Cards :
    LET r == dropOnCardPool(Engine, checkState, p, draggedCard) IN
    BoardEvent(r.engine, r.checkState, "drop")

\* the Mill and Check buttons are rendered for the player's own area
\* while the deck is not empty
Mill ==
  \E p \in Players, millCount \in 0 .. CardsPerPlayer :
    /\ ~isOpponent(p) /\ count(player[p].deck) > 0
    /\ BoardEvent(mill(Engine, p, millCount), checkState, "mill")

RevealCheckCard ==
  \E p \in Players :
    /\ ~isOpponent(p) /\ count(player[p].deck) > 0
    /\ LET r == revealCheckCard(Engine, checkState, p) IN
       BoardEvent(r.engine, r.checkState, "check")

\* a table whose two characters have the largest hand size, player 1 first
TableInit ==
  /\ Constructed(MaxOps - 1)
  /\ config.startingPlayer = 1
  /\ \A p \in Players : /\ hasCharacter(player[p])
                         /\ player[p].character[1].handSize = MaxHandSize

TableNext ==
  \/ StartGame
  \/ ProcessTurn
  \/ ResumeProcessTurn
  \/ PlayFoundation
  \/ PlayAsset
  \/ DeclareAttack
  \/ DeclareBlock
  \/ AdvancePhase
  \/ EndTurn
  \/ CommitFoundations
  \/ PerformCheck
  \/ DrawCards
  \/ DiscardHand
  \/ ShuffleDiscardIntoDeck
  \/ DropOnCardPool
  \/ Mill
  \/ RevealCheckCard

TableSpec == TableInit /\ [][TableNext]_vars

(* ------------------------- the zones of a player ----------------------- *)

DiscardCard ==
  \E p \in Players, c \in Cards :
    LET r == discardCard(player[p], c) IN
    /\ Call([Engine EXCEPT !.player[p] = r.player], "discardCard",
            Returned(r.result), FALSE)
    /\ UNCHANGED pending

\* Deck.shuffle of a player's deck
Shuffle ==
  \E p \in Players : \E shuffled \in shuffle(player[p].deck) :
    PlayerCall(p, [player[p] EXCEPT !.deck = shuffled], "shuffle")

\* the players' zone methods, the checks and the board's handlers, on a
\* table where both characters have the largest hand size
ZoneInit ==
  /\ Init
  /\ config.startingPlayer = 1
  /\ \A p \in Players : /\ hasCharacter(player[p])
                         /\ player[p].character[1].handSize = MaxHandSize

ZoneNext ==
  \/ DrawCards
  \/ DiscardCard
  \/ DiscardHand
  \/ Shuffle
  \/ ShuffleDiscardIntoDeck
  \/ PerformCheck
  \/ DropOnCardPool
  \/ Mill
  \/ RevealCheckCard

ZoneSpec == ZoneInit /\ [][ZoneNext]_vars

(* ------------------------ readying the play area ---------------------- *)

\* Player.readyAllCards
readyAllCards(e, p) == [e EXCEPT !.card = readyAll(e.card, e.player[p].playArea)]

ReadyAllCards ==
  \E p \in Players :
    /\ Call(readyAllCards(Engine, p), "readyAllCards", "ok", FALSE)
    /\ UNCHANGED pending

\* a card effect writes the mutable state of a card
CardEffect ==
  \E c \in Cards : \E written \in CardEffects(card[c]) :
    /\ Call([Engine EXCEPT !.card[c] = written], "cardEffect", "ok", FALSE)
    /\ UNCHANGED pending

ReadyNext ==
  \/ StartGame
  \/ AdvancePhase
  \/ PlayFoundation
  \/ CommitFoundations
  \/ CardEffect
  \/ ReadyAllCards

ReadySpec == ZoneInit /\ [][ReadyNext]_vars

(* ------------------------- health and winning -------------------------- *)

WinNext ==
  \/ StartGame
  \/ ProcessTurn
  \/ ResumeProcessTurn
  \/ AdvancePhase
  \/ EndTurn
  \/ TakeDamage
  \/ Heal

WinSpec == Init /\ [][WinNext]_vars

(* ------------------------- a game once started ----------------------- *)

\* the engine's operations on a game that startGame has started
TurnNext ==
  \/ StartGame
  \/ status # SETUP /\ ProcessTurn
  \/ status # SETUP /\ ResumeProcessTurn
  \/ status # SETUP /\ PlayFoundation
  \/ status # SETUP /\ PlayAsset
  \/ status # SETUP /\ DeclareAttack
  \/ status # SETUP /\ DeclareBlock
  \/ status # SETUP /\ AdvancePhase
  \/ status # SETUP /\ EndTurn

TurnSpec == Init /\ [][TurnNext]_vars

\* integer amounts handed to takeDamage and heal
Amounts == (0 - MaxHealth) .. MaxHealth

TakeDamageOfAmount ==
  \E p \in Players, amount \in Amounts :
    PlayerCall(p, takeDamage(player[p], amount), "takeDamage")

HealOfAmount ==
  \E p \in Players, amount \in Amounts :
    PlayerCall(p, heal(player[p], amount), "heal")

PoolNext ==
  \/ TakeDamageOfAmount
  \/ HealOfAmount

PoolSpec == Init /\ [][PoolNext]_vars

(* ------------------------ committing foundations ----------------------- *)

\* the engine's own operations, on a table where both characters have the
\* largest hand size
CommitInit ==
  /\ Init
  /\ config.startingPlayer = 1
  /\ \A p \in Players : /\ hasCharacter(player[p])
                         /\ player[p].character[1].handSize = MaxHandSize

CommitNext ==
  \/ StartGame
  \/ ProcessTurn
  \/ ResumeProcessTurn
  \/ PlayFoundation
  \/ PlayAsset
  \/ DeclareAttack
  \/ DeclareBlock
  \/ AdvancePhase
  \/ EndTurn
  \/ CommitFoundations
  \/ PerformCheck

CommitSpec == CommitInit /\ [][CommitNext]_vars

(* ------------------------------ claims -------------------------------- *)

\* the cards a zone holds
Held(cards) == {cards[i] : i \in DOMAIN cards}

\* the step just taken was the engine call op
Called(op) == lastCall'.op = op /\ opCount' = opCount + 1

ZoneNames ==
  {"deck", "hand", "discard", "cardPool", "stagingArea", "playArea", "removed"}

\* between engine states e1 and e2 the card c went from zone `from` to the
\* end of zone `to` of player p, and no other zone of any player changed
Moved(e1, e2, p, c, from, to) ==
  /\ Held(e2.player[p][from]) = Held(e1.player[p][from]) \ {c}
  /\ Len(e2.player[p][from]) = Len(e1.player[p][from]) - 1
  /\ e2.player[p][to] = Append(e1.player[p][to], c)
  /\ \A q \in Players : \A z \in ZoneNames :
       (q # p \/ z \notin {from, to}) => e2.player[q][z] = e1.player[q][z]

C2_StartGameState ==
  (lastCall.op = "startGame" /\ opCount = 1) =>
     /\ getGameState(Engine).currentPhase = REVIEW
     /\ getGameState(Engine).currentStep = REVIEW_START
     /\ getGameState(Engine).turnNumber = 1
     /\ getGameState(Engine).activePlayerId = config.startingPlayer
     /\ status = IN_PROGRESS

C2_Witness ==
  /\ lastCall = [op |-> "startGame", result |-> "ok"]
  /\ opCount = 1
  /\ config.startingPlayer = 2

\* C3: after startGame() on the engine as set up, with a deck of
\* CardsPerPlayer >= handSize cards, each player's hand holds as many cards
\* as the character's hand size and the deck the rest.
C3_OpeningHand ==
  (lastCall.op = "startGame" /\ opCount = 1) =>
     \A p \in Players :
        (hasCharacter(player[p])
           /\ CardsPerPlayer >= player[p].character[1].handSize) =>
          /\ count(player[p].hand) = player[p].character[1].handSize
          /\ count(player[p].deck) =
               CardsPerPlayer - player[p].character[1].handSize

\* C4: startGame() called when the status is not Setup throws and changes
\* nothing.
C4_StartGameTwice ==
  [][(Called("startGame") /\ status # SETUP) =>
       /\ lastCall'.result = "throw"
       /\ UNCHANGED <<player, card, turnManager, combatManager, status,
                      winner, pending>>]_vars

\* a second startGame has thrown, on a game with cards in hand
C4_Witness ==
  /\ lastCall = [op |-> "startGame", result |-> "throw"]
  /\ status = IN_PROGRESS
  /\ \E p \in Players : player[p].hand # <<>>

\* C5: processReviewPhase() (the part of processTurn in Review before its
\* await) on a deck of at least handSize cards leaves the active player
\* with exactly handSize cards in hand, handSize being the player's
\* getHandSize(); every card held before is in the discard pile and not in
\* the hand.
C5_ReviewDiscardThenDraw ==
  [][(Called("processTurn") /\ turnManager.phase = REVIEW) =>
       LET a == turnManager.activePlayer IN
       count(player[a].deck) >= getHandSize(player[a]) =>
         /\ count(player'[a].hand) = getHandSize(player[a])
         /\ \A c \in Held(player[a].hand) :
              /\ contains(player'[a].discard, c)
              /\ ~contains(player'[a].hand, c)]_vars

\* a Review phase has just discarded a hand and drawn a full new one
C5_Witness ==
  /\ lastCall = [op |-> "processTurn", result |-> "advance"]
  /\ LET a == turnManager.activePlayer IN
     /\ player[a].discard # <<>>
     /\ count(player[a].hand) = getHandSize(player[a])

\* C6: no playFoundation or playAsset call succeeds in a Ready phase whose
\* bulk reset (readyAll, in processReadyPhase) has not run yet.
C6_ReadiedBeforePlay ==
  (lastCall.op \in {"playFoundation", "playAsset"} /\ lastCall.result = "true")
     => readied

\* C7: playFoundation and playAsset return true only in the Ready phase with
\* the card in that player's hand; the card then has left the hand for the
\* play area and no other zone has changed.
C7_PlayCard ==
  \A playerId \in CallerIds : \A c \in Cards :
    \A r \in {playFoundation(Engine, playerId, c),
              playAsset(Engine, playerId, c)} :
      r.result =>
        /\ turnManager.phase = READY
        /\ contains(player[playerId].hand, c)
        /\ Moved(Engine, r.engine, playerId, c, "hand", "playArea")

C7_Witness ==
  /\ lastCall = [op |-> "playFoundation", result |-> "true"]
  /\ \E p \in Players : player[p].playArea # <<>>

\* C8: declareAttack returns true only in the Combat phase with the card in
\* the attacker's hand; the card then has moved to the attacker's staging
\* area and an unresolved attack is open from attackerId on the other player.
C8_DeclareAttack ==
  \A attackerId \in CallerIds : \A c \in Cards :
    LET r == declareAttack(Engine, attackerId, c) IN
    r.result =>
      /\ turnManager.phase = COMBAT
      /\ contains(player[attackerId].hand, c)
      /\ Moved(Engine, r.engine, attackerId, c, "hand", "stagingArea")
      /\ hasActiveAttack(r.engine.combatManager)
      /\ r.engine.combatManager.currentAttack[1].attackCard = c
      /\ r.engine.combatManager.currentAttack[1].attackerId = attackerId
      /\ r.engine.combatManager.currentAttack[1].defenderId \in
           Players \ {attackerId}

C8_Witness ==
  /\ lastCall = [op |-> "declareAttack", result |-> "true"]
  /\ hasActiveAttack(combatManager)
  /\ combatManager.currentAttack[1].blockCard = 0

\* C9: declareBlock returns true only with an attack open and the card in
\* the defender's hand; the card then has moved to that player's staging
\* area and is the block card of the open attack.  While no attack has been
\* declared, declareBlock returns false.
C9_DeclareBlock ==
  \A defenderId \in CallerIds : \A c \in Cards :
    LET r == declareBlock(Engine, defenderId, c) IN
    /\ r.result =>
         /\ combatManager.currentAttack # <<>>
         /\ ~combatManager.currentAttack[1].resolved
         /\ contains(player[defenderId].hand, c)
         /\ Moved(Engine, r.engine, defenderId, c, "hand", "stagingArea")
         /\ hasActiveAttack(r.engine.combatManager)
         /\ r.engine.combatManager.currentAttack[1].blockCard = c
    /\ combatManager.currentAttack = <<>> => ~r.result

C9_Witness ==
  /\ lastCall = [op |-> "declareBlock", result |-> "true"]
  /\ hasActiveAttack(combatManager)
  /\ combatManager.currentAttack[1].blockCard # 0

\* C10: playFoundation, playAsset, declareAttack and declareBlock called
\* with a violated precondition (wrong phase, card not in the player's hand,
\* no open attack) return false and leave the whole game state as it was.
C10_SoftFailure ==
  \A playerId \in CallerIds : \A c \in Cards :
    LET absent == ~contains(player[playerId].hand, c)
        failsSoftly(r) == r.result = FALSE /\ r.engine = Engine
    IN
    /\ (turnManager.phase # READY \/ absent) =>
         /\ failsSoftly(playFoundation(Engine, playerId, c))
         /\ failsSoftly(playAsset(Engine, playerId, c))
    /\ (turnManager.phase # COMBAT \/ absent) =>
         failsSoftly(declareAttack(Engine, playerId, c))
    /\ (~hasActiveAttack(combatManager) \/ absent) =>
         failsSoftly(declareBlock(Engine, playerId, c))

\* a card play was refused in the wrong phase though the card was in hand
C10_Witness ==
  /\ lastCall = [op |-> "playAsset", result |-> "false"]
  /\ turnManager.phase = COMBAT
  /\ \E p \in Players : player[p].hand # <<>>

\* the sum of the printed check values of a list of cards
RECURSIVE CheckSum(_)
CheckSum(cards) ==
  IF cards = <<>> THEN 0 ELSE CheckOf(Head(cards)) + CheckSum(Tail(cards))

\* the first k cards of a list, and the cards after them
Prefix(cards, k) == SubSeq(cards, 1, k)
Rest(cards, k) == SubSeq(cards, k + 1, Len(cards))

\* the length of the shortest prefix of the deck whose check values add up
\* to D or more; the whole deck when there is none
ShortestPrefix(deck, D) ==
  IF \E k \in 0 .. Len(deck) : CheckSum(Prefix(deck, k)) >= D
  THEN CHOOSE k \in 0 .. Len(deck) :
         /\ CheckSum(Prefix(deck, k)) >= D
         /\ \A j \in 0 .. (k - 1) : CheckSum(Prefix(deck, j)) < D
  ELSE Len(deck)

\* C11: in every state, for every player id and difficulty D, performCheck
\* moves exactly the shortest prefix of that player's deck whose check
\* values add up to D or more (the whole deck when none does, no card when
\* D <= 0) to the end of the card pool, leaves the rest of the deck in its
\* order, returns the sum of the revealed check values as total and
\* total >= D as success, and changes nothing else
C11_PerformCheck ==
  \A playerId \in CallerIds, D \in Difficulties :
    LET r == performCheck(Engine, playerId, D)
        p == getPlayer(playerId)
        deck == player[p].deck
        k == ShortestPrefix(deck, D)
    IN /\ r.revealed = Prefix(deck, k)
       /\ D <= 0 => r.revealed = <<>>
       /\ r.engine.player[p].deck = Rest(deck, k)
       /\ r.engine.player[p].cardPool = player[p].cardPool \o Prefix(deck, k)
       /\ r.result.total = CheckSum(Prefix(deck, k))
       /\ r.result.success = (r.result.total >= D)
       /\ r.engine = [Engine EXCEPT !.player[p].deck = Rest(deck, k),
                                    !.player[p].cardPool = @ \o Prefix(deck, k)]

\* a successful check has revealed part of a deck and left the rest
C11_Witness ==
  /\ lastCall = [op |-> "performCheck", result |-> "true"]
  /\ \E p \in Players : /\ player[p].cardPool # <<>>
                         /\ player[p].deck # <<>>
                         /\ player[p].hand = <<>> /\ player[p].discard = <<>>

\* C12: the card last dropped into the card pool has, as progressive
\* difficulty, the number of cards placed into the pool before it, and the
\* check opened for it requires its base difficulty plus that number
C12_ProgressiveDifficulty ==
  checkState # <<>> =>
    \E i \in DOMAIN player[1].cardPool :
      /\ player[1].cardPool[i] = checkState[1].cardBeingPlayed
      /\ card[checkState[1].cardBeingPlayed].progressiveDifficulty = i - 1
      /\ checkState[1].requiredDifficulty =
           card[checkState[1].cardBeingPlayed].baseDifficulty + (i - 1)

\* C13: once a check card is revealed, with D the required difficulty, V
\* the revealed check value and U the number of uncommitted foundations in
\* the acting player's play area: the panel shows the check as passed iff
\* V >= D, when V < D as passable by commitment iff D - V <= U, and as
\* needing max(0, D - V) foundations
C13_SingleRevealRule ==
  (checkState # <<>> /\ checkState[1].revealedCheckCard # 0) =>
    LET D == checkState[1].requiredDifficulty
        V == CheckOf(checkState[1].revealedCheckCard)
        U == count(getUncommittedFoundations(card, player[1].playArea))
    IN /\ checkPassed(Engine, checkState) <=> V >= D
       /\ V < D => (canPassWithFoundations(Engine, checkState, cardPoolSize(Engine))
                      <=> D - V <= U)
       /\ foundationsNeeded(Engine, checkState) = IF D - V > 0 THEN D - V ELSE 0

\* the cards a call has turned from uncommitted to committed
NewlyCommitted(e1, e2) ==
  {c \in Cards : ~e1.card[c].committed /\ e2.card[c].committed}

\* C14: in every state, for every player id and list of cards, when
\* commitFoundations returns true every listed card was in that player's
\* play area, every listed card is committed afterwards, and the number of
\* cards the call turned from uncommitted to committed is the length of
\* the list
C14_CommitFoundationsTrue ==
  \A playerId \in CallerIds, foundations \in FoundationLists :
    LET r == commitFoundations(Engine, playerId, foundations)
        p == getPlayer(playerId)
    IN r.result =>
         /\ \A i \in DOMAIN foundations :
              /\ contains(player[p].playArea, foundations[i])
              /\ r.engine.card[foundations[i]].committed
         /\ Cardinality(NewlyCommitted(Engine, r.engine)) = Len(foundations)

\* C15: in every state, for every player id and every list holding a card
\* that is not in that player's play area, commitFoundations returns
\* false, the cards listed before the first such card are committed, and
\* every other card, the ones listed after it included, is as it was
C15_CommitFoundationsNotAtomic ==
  \A playerId \in CallerIds, foundations \in FoundationLists :
    LET r == commitFoundations(Engine, playerId, foundations)
        playArea == player[getPlayer(playerId)].playArea
        absent == {i \in DOMAIN foundations : ~contains(playArea, foundations[i])}
    IN absent # {} =>
         LET first == CHOOSE i \in absent : \A j \in absent : i <= j
             before == {foundations[i] : i \in 1 .. (first - 1)}
         IN /\ r.result = FALSE
            /\ r.engine = [Engine EXCEPT !.card = [c \in Cards |->
                  IF c \in before THEN commit(card[c]) ELSE card[c]]]

\* the fourth call, the first commitFoundations of the run, has returned
\* false and left a card committed
C15_Witness ==
  /\ lastCall = [op |-> "commitFoundations", result |-> "false"]
  /\ opCount = 4
  /\ \E c \in Cards : card[c].committed

\* C16: a step turns a card from committed to uncommitted only if it is a
\* processTurn in the Ready phase and the card's controller is the active
\* player, and after every processTurn in the Ready phase every card in
\* the active player's play area is uncommitted
C16_CommittedUntilReady ==
  [][/\ \A c \in Cards :
        (card[c].committed /\ ~card'[c].committed) =>
          /\ Called("processTurn") /\ turnManager.phase = READY
          /\ c \in CardsOf(turnManager.activePlayer)
     /\ (Called("processTurn") /\ turnManager.phase = READY) =>
          \A c \in Held(player'[turnManager.activePlayer].playArea) :
            ~card'[c].committed]_vars

\* the Ready phase's bulk reset has uncommitted a card committed before
C16_Witness ==
  /\ lastCall.op = "processTurn"
  /\ readied
  /\ lastReadied # {}
  /\ lastReadied \subseteq Held(player[turnManager.activePlayer].playArea)

\* the player's character has health 0 or less
Defeated(pl) == pl.character # <<>> /\ pl.character[1].currentHealth <= 0

\* the step just taken ran a win-condition check: endTurn, or processTurn
\* in the End phase
WinCheckRan ==
  \/ Called("endTurn")
  \/ Called("processTurn") /\ turnManager.phase = END

\* C17 as stated: after every endTurn and every processTurn in the End
\* phase, for each player whose character has health <= 0 the status is
\* Finished and the winner is the other player, and if no character is
\* defeated status and winner are as before
C17_WinnerIsTheOther ==
  [][WinCheckRan =>
       /\ \A p \in Players :
            Defeated(player'[p]) => status' = FINISHED /\ winner' = 3 - p
       /\ (\A p \in Players : ~Defeated(player'[p])) =>
            status' = status /\ winner' = winner]_vars

\* C17 amended: after every endTurn and every processTurn in the End
\* phase, if exactly one player's character has health <= 0 the status is
\* Finished and the winner is the other player, and if no character is
\* defeated status and winner are as before
C17_WinDetection ==
  [][WinCheckRan =>
       /\ \A p \in Players :
            (Defeated(player'[p]) /\ ~Defeated(player'[3 - p])) =>
              status' = FINISHED /\ winner' = 3 - p
       /\ (\A p \in Players : ~Defeated(player'[p])) =>
            status' = status /\ winner' = winner]_vars

\* a processTurn in the End phase has found player 2 alone defeated
C17_Witness ==
  /\ lastCall.op = "processTurn" /\ turnManager.phase = END
  /\ Defeated(player[2]) /\ ~Defeated(player[1])
  /\ status = FINISHED /\ winner = 1

\* C18: after every endTurn and every processTurn in the End phase that
\* finds both characters at health <= 0, the status is Finished and the
\* winner is player 2
C18_SimultaneousDefeat ==
  [][(WinCheckRan /\ Defeated(player'[1]) /\ Defeated(player'[2])) =>
       status' = FINISHED /\ winner' = 2]_vars

\* an endTurn has run its win-condition check with both characters defeated
C18_Witness ==
  /\ lastCall.op = "endTurn"
  /\ Defeated(player[1]) /\ Defeated(player[2])
  /\ status = FINISHED /\ winner = 2

\* the cards in the seven zones of a player, zone after zone
AllCards(pl) ==
  pl.deck \o pl.hand \o pl.discard \o pl.cardPool \o pl.stagingArea
    \o pl.playArea \o pl.removed

ZoneValue(z) ==
  CASE z = "deck" -> ZONE_DECK
    [] z = "hand" -> ZONE_HAND
    [] z = "discard" -> ZONE_DISCARD
    [] z = "cardPool" -> ZONE_CARD_POOL
    [] z = "stagingArea" -> ZONE_STAGE
    [] z = "playArea" -> ZONE_IN_PLAY
    [] z = "removed" -> ZONE_REMOVED

\* C20: in every state, the zone field of each card names the zone
\* container that holds it
C20_ZoneField ==
  \A p \in Players : \A z \in ZoneNames : \A c \in Held(player[p][z]) :
    card[c].zone = ZoneValue(z)

\* C21: in every state, for a player whose deck is empty, performCheck
\* reveals no card, returns total 0 and success only for a difficulty of 0
\* or less, and leaves the engine (deck and discard pile included) as it
\* is; the board's Check handler, for player 1 with an empty deck, changes
\* neither the zones nor the check state, and an open check without a
\* revealed card counts 0 and passes only for a required difficulty of 0
\* or less
C21_EmptyDeckCheck ==
  /\ \A playerId \in CallerIds, D \in Difficulties :
       player[getPlayer(playerId)].deck = <<>> =>
         LET r == performCheck(Engine, playerId, D) IN
         /\ r.revealed = <<>>
         /\ r.result = [success |-> D <= 0, total |-> 0]
         /\ r.engine = Engine
  /\ player[1].deck = <<>> =>
       /\ revealCheckCard(Engine, checkState, 1) =
            [engine |-> Engine, checkState |-> checkState]
       /\ (checkState # <<>> /\ checkState[1].revealedCheckCard = 0) =>
            /\ baseCheckValue(Engine, checkState) = 0
            /\ checkPassed(Engine, checkState)
                 <=> checkState[1].requiredDifficulty <= 0

\* a performCheck has failed without revealing a card (no card is in a
\* card pool): the decks are empty, and there are discard piles it could
\* have reshuffled
C21_Witness ==
  /\ lastCall = [op |-> "performCheck", result |-> "false"]
  /\ \A p \in Players : /\ player[p].deck = <<>>
                         /\ player[p].cardPool = <<>>
                         /\ player[p].discard # <<>>

\* counts handed to drawCards in C22: from below zero to beyond the deck
DrawCounts == (0 - 1) .. (CardsPerPlayer + 1)

\* the smaller of two numbers, and n or 0 if n is negative
Min(a, b) == IF a < b THEN a ELSE b
AtLeastZero(n) == IF n > 0 THEN n ELSE 0

\* C22: in every state, for every player and count n, drawCards(n) moves
\* the first min(n, deck count) cards of the deck (none for n <= 0) to the
\* end of the hand in deck order, leaves the rest of the deck, an empty
\* deck when it held fewer than n cards, and changes nothing else
C22_DrawCards ==
  \A p \in Players, n \in DrawCounts :
    LET k == Min(AtLeastZero(n), count(player[p].deck))
        after == drawCards(player[p], n)
    IN /\ after = [player[p] EXCEPT !.deck = Rest(player[p].deck, k),
                                    !.hand = @ \o Prefix(player[p].deck, k)]
       /\ count(player[p].deck) < n => after.deck = <<>>

\* a drawCards has moved a whole deck, in its order, behind a card drawn
\* before
C22_Witness ==
  /\ lastCall.op = "drawCards"
  /\ opCount = 2
  /\ \E p \in Players : /\ player[p].deck = <<>>
                         /\ player[p].hand = SetupDeck(p)

\* C23: in every state, readyAll on a player's play area leaves every
\* card of the play area uncommitted, with progressive difficulty 0, its
\* base difficulty and its base block zone, whatever state it had; it
\* leaves every other card and every zone as they are, and readying a
\* second time changes nothing more
C23_ReadyAll ==
  \A p \in Players :
    LET e2 == readyAllCards(Engine, p) IN
    /\ \A c \in Cards :
         e2.card[c] =
           IF c \in Held(player[p].playArea)
           THEN [card[c] EXCEPT !.committed = FALSE,
                                !.progressiveDifficulty = 0,
                                !.currentDifficulty = card[c].baseDifficulty,
                                !.currentBlockZone = card[c].baseBlockZone]
           ELSE card[c]
    /\ e2 = [Engine EXCEPT !.card = e2.card]
    /\ readyAllCards(e2, p) = e2

\* readyAllCards has just reset a committed card of a play area
C23_Witness ==
  /\ lastCall.op = "readyAllCards"
  /\ \E p \in Players : /\ lastReadied # {}
                         /\ lastReadied \subseteq Held(player[p].playArea)

\* how many times a list holds card c
Occurrences(cards, c) == Cardinality({i \in DOMAIN cards : cards[i] = c})

\* C24: in every state, for every player and every outcome of the random
\* choices, shuffle leaves a deck of the same length holding every card as
\* many times as before
C24_ShuffleIsPermutation ==
  \A p \in Players : \A shuffled \in shuffle(player[p].deck) :
    /\ count(shuffled) = count(player[p].deck)
    /\ \A c \in Cards :
         Occurrences(shuffled, c) = Occurrences(player[p].deck, c)

\* a shuffle has left a whole deck in another order than it was set up in
C24_Witness ==
  /\ lastCall.op = "shuffle"
  /\ \E p \in Players : /\ count(player[p].deck) = CardsPerPlayer
                         /\ player[p].deck # SetupDeck(p)

\* C25: after every sequence of takeDamage and heal calls with integer
\* amounts, each character's health is at least 0 and at most its maximum
C25_HealthClamped ==
  \A p \in Players :
    hasCharacter(player[p]) =>
      /\ 0 <= player[p].character[1].currentHealth
      /\ player[p].character[1].currentHealth <= player[p].character[1].maxHealth

MillCounts == 0 .. (CardsPerPlayer + 1)

\* mill of count millCount moves exactly the top `moved` cards of player
\* p's deck to p's discard pile, whatever the difficulties of the cards,
\* and changes nothing else
MillMoves(p, millCount, moved) ==
  LET e == mill(Engine, p, millCount)
      deck == player[p].deck
  IN /\ e.player[p].deck = Rest(deck, moved)
     /\ Len(e.player[p].discard) = Len(player[p].discard) + moved
     /\ \A c \in Cards :
          Occurrences(e.player[p].discard, c) =
            Occurrences(player[p].discard, c) + Occurrences(Prefix(deck, moved), c)
     /\ e = [Engine EXCEPT !.player[p].deck = e.player[p].deck,
                           !.player[p].discard = e.player[p].discard]
     /\ \A c \in Cards : \A modified \in CardEffects(card[c]) :
          mill([Engine EXCEPT !.card[c] = modified], p, millCount).player
            = e.player

\* C27 as stated: wherever the Mill button is shown, Mill N moves exactly
\* min(N, deck count) cards from the top of the deck to the same player's
\* discard pile and changes nothing else, for every N entered
C27_MillExactlyN ==
  \A p \in Players, millCount \in MillCounts :
    (~isOpponent(p) /\ count(player[p].deck) > 0)
      => MillMoves(p, millCount, Min(millCount, count(player[p].deck)))

\* C27, amended: wherever the Mill button is shown, Mill N with N >= 1
\* moves exactly min(N, deck count) cards from the top of the deck to the
\* same player's discard pile, and with an entry that reads as 0 or as no
\* number it moves exactly one card; difficulty is never consulted and
\* hand, card pool, play area, staging area and turn state are unchanged
C27_MillCount ==
  \A p \in Players, millCount \in MillCounts :
    (~isOpponent(p) /\ count(player[p].deck) > 0)
      => MillMoves(p, millCount,
                   Min(IF millCount >= 1 THEN millCount ELSE 1,
                       count(player[p].deck)))

\* a mill has acted and left a deck of one card, which a Mill 2 empties
\* before its count is reached
C27_Witness ==
  /\ lastCall.op = "mill"
  /\ count(player[1].deck) = 1
  /\ count(player[1].discard) = CardsPerPlayer - 1

\* C28: a processTurn() called in the Review phase is atomic: the step that
\* completes it (its phase advance after the await) starts in the Review
\* phase the call was made in, no other operation having moved the phase
\* since, and ends in the Ready phase of the same turn
C28_ProcessTurnAtomic ==
  [][(/\ pending # <<>>
      /\ Head(pending) = "advance"
      /\ pending' = Tail(pending)
      /\ opCount' = opCount)
       => /\ turnManager.phase = REVIEW
          /\ turnManager'.phase = READY
          /\ turnManager'.turnNumber = turnManager.turnNumber]_vars

\* C29: after every operation that puts cards into a player's discard
\* pile, peekTop of the pile is the card discarded last: the card of a
\* successful discardCard, the last card of the hand after discardHand,
\* the last card milled, the card the Check button revealed
C29_DiscardTop ==
  /\ \A p \in Players, c \in Cards :
       LET r == discardCard(player[p], c) IN
       r.result => peekTop(r.player.discard) = c
  /\ \A p \in Players :
       player[p].hand # <<>> =>
         peekTop(discardHand(player[p]).discard)
           = player[p].hand[Len(player[p].hand)]
  /\ \A p \in Players, millCount \in 1 .. CardsPerPlayer :
       (~isOpponent(p) /\ count(player[p].deck) > 0) =>
         peekTop(mill(Engine, p, millCount).player[p].discard)
           = player[p].deck[Min(millCount, count(player[p].deck))]
  /\ \A p \in Players :
       (/\ ~isOpponent(p) /\ count(player[p].deck) > 0
        /\ checkState # <<>> /\ checkState[1].revealedCheckCard = 0) =>
         LET r == revealCheckCard(Engine, checkState, p) IN
         /\ r.checkState[1].revealedCheckCard = Head(player[p].deck)
         /\ peekTop(r.engine.player[p].discard) = Head(player[p].deck)

\* C30: in a game that startGame started, whatever operations followed,
\* in every state whose phase is Review, Ready or Combat the active player
\* is the configured starting player iff the turn number is odd
C30_TurnsAlternate ==
  (status # SETUP /\ turnManager.phase \in {REVIEW, READY, COMBAT})
    => (turnManager.activePlayer = config.startingPlayer
          <=> turnManager.turnNumber % 2 = 1)

\* C31: a defeat is detected before the game moves on: no step increments
\* the turn counter while the status is InProgress and a character has
\* health 0 or less
C31_DefeatBeforeNextTurn ==
  [][turnManager'.turnNumber # turnManager.turnNumber =>
       ~(/\ status = IN_PROGRESS
         /\ \E p \in Players : Defeated(player[p]))]_vars

\* the order of the statuses: Setup, InProgress, Finished
StatusRank(st) == CASE st = SETUP -> 0 [] st = IN_PROGRESS -> 1 [] st = FINISHED -> 2

\* C32: Finished is absorbing: no step moves the status backwards, after
\* every step the winner is set iff the status is Finished, and a step
\* taken in status Finished changes neither the status nor the winner
C32_FinishedAbsorbing ==
  [][/\ StatusRank(status') >= StatusRank(status)
     /\ winner' # 0 <=> status' = FINISHED
     /\ status = FINISHED => (status' = FINISHED /\ winner' = winner)]_vars

\* phase, turn counter and active player
TurnPosition(e) ==
  <<e.turnManager.phase, e.turnManager.turnNumber, e.turnManager.activePlayer>>

\* C33: while the status is Setup or Finished, advancePhase and endTurn
\* leave phase, turn counter and active player as they are, and
\* playFoundation, playAsset, declareAttack, declareBlock and
\* commitFoundations return false and change no state
C33_OnlyInProgress ==
  status \in {SETUP, FINISHED} =>
    /\ TurnPosition(engineAdvancePhase(Engine)) = TurnPosition(Engine)
    /\ TurnPosition(engineEndTurn(Engine)) = TurnPosition(Engine)
    /\ \A playerId \in CallerIds, c \in Cards :
         /\ playFoundation(Engine, playerId, c) = [engine |-> Engine, result |-> FALSE]
         /\ playAsset(Engine, playerId, c) = [engine |-> Engine, result |-> FALSE]
         /\ declareAttack(Engine, playerId, c) = [engine |-> Engine, result |-> FALSE]
         /\ declareBlock(Engine, playerId, c) = [engine |-> Engine, result |-> FALSE]
    /\ \A playerId \in CallerIds, foundations \in FoundationLists :
         commitFoundations(Engine, playerId, foundations)
           = [engine |-> Engine, result |-> FALSE]

\* C34: playFoundation, playAsset and declareAttack return true only when
\* playerId is the id of the active player
C34_OnlyActivePlayerActs ==
  \A playerId \in CallerIds, c \in Cards :
    (\/ playFoundation(Engine, playerId, c).result
     \/ playAsset(Engine, playerId, c).result
     \/ declareAttack(Engine, playerId, c).result)
      => getPlayer(playerId) = turnManager.activePlayer

\* C35: an attack does not outlive its turn: every step that increments
\* the turn counter leaves no attack open, and in every state declareBlock
\* succeeds only in the Combat phase
C35_AttackEndsWithTurn ==
  /\ [](\A defenderId \in CallerIds, c \in Cards :
          declareBlock(Engine, defenderId, c).result
            => turnManager.phase = COMBAT)
  /\ [][turnManager'.turnNumber # turnManager.turnNumber
          => ~hasActiveAttack(combatManager')]_vars

\* C36: in every state, for every player id and difficulty D,
\* performCheck removes the revealed cards from the top of that player's
\* deck and appends them to the card pool in reveal order, the pool's
\* getTotalControl grows by exactly the returned total, and the player's
\* other zones, the cards' fields, the other player, the attack slot, the
\* turn state, the status and the winner are unchanged
C36_PerformCheckFrame ==
  \A playerId \in CallerIds, D \in Difficulties :
    LET r == performCheck(Engine, playerId, D)
        p == getPlayer(playerId)
        k == Len(r.revealed)
    IN /\ r.revealed = Prefix(player[p].deck, k)
       /\ r.engine.player[p].deck = Rest(player[p].deck, k)
       /\ r.engine.player[p].cardPool = player[p].cardPool \o r.revealed
       /\ getTotalControl(r.engine.card, r.engine.player[p].cardPool)
            = getTotalControl(card, player[p].cardPool) + r.result.total
       /\ r.engine.player[p] =
            [player[p] EXCEPT !.deck = r.engine.player[p].deck,
                              !.cardPool = r.engine.player[p].cardPool]
       /\ r.engine.player[3 - p] = player[3 - p]
       /\ r.engine.card = card
       /\ r.engine.combatManager = combatManager
       /\ r.engine.turnManager = turnManager
       /\ r.engine.status = status /\ r.engine.winner = winner

\* a check has revealed a card for a player who has a foundation in play
C36_Witness ==
  /\ lastCall.op = "performCheck"
  /\ \E p \in Players : /\ player[p].cardPool # <<>>
                         /\ player[p].playArea # <<>>

\* C37: in every state, processReviewPhase changes, of the players and
\* cards, only the active player's hand, deck and discard, and
\* processReadyPhase only the cards in the active player's play area; both
\* leave the opponent's zones, the cards elsewhere, the turn counter and
\* the active player as they are
C37_PhaseProcessingFrame ==
  LET a == turnManager.activePlayer
      review == processReviewPhase(Engine)
      ready == processReadyPhase(Engine)
  IN /\ review.player[3 - a] = player[3 - a]
     /\ review.player[a] = [player[a] EXCEPT !.hand = review.player[a].hand,
                                             !.deck = review.player[a].deck,
                                             !.discard = review.player[a].discard]
     /\ review.card = card
     /\ ready.player = player
     /\ \A c \in Cards \ Held(player[a].playArea) : ready.card[c] = card[c]
     /\ \A e \in {review, ready} :
          /\ e.turnManager.turnNumber = turnManager.turnNumber
          /\ e.turnManager.activePlayer = turnManager.activePlayer
          /\ e.turnManager.opponent = turnManager.opponent

\* the Ready phase has been processed while the opponent had a committed
\* card in play, which is still committed
C37_Witness ==
  /\ lastCall = [op |-> "processTurn", result |-> "noop"]
  /\ \E c \in Held(player[turnManager.opponent].playArea) : card[c].committed

\* C38: processTurn alone does not drive a turn to completion: a
\* processTurn called in Review completes in Ready; a processTurn called
\* in Ready or Combat leaves the phase and the turn counter as they are
\* and changes no zone; only advancePhase and endTurn move the phase out
\* of Ready or Combat; and a processTurn called in End starts the next
\* turn iff the status is InProgress after its win check
C38_ProcessTurnAlone ==
  [][/\ (pending # <<>> /\ Head(pending) = "advance"
           /\ pending' = Tail(pending) /\ opCount' = opCount)
          => turnManager'.phase = READY
     /\ (Called("processTurn") /\ turnManager.phase \in {READY, COMBAT})
          => /\ turnManager'.phase = turnManager.phase
             /\ turnManager'.turnNumber = turnManager.turnNumber
             /\ player' = player
     /\ (turnManager.phase \in {READY, COMBAT}
           /\ turnManager'.phase # turnManager.phase)
          => (Called("advancePhase") \/ Called("endTurn"))
     /\ (Called("processTurn") /\ turnManager.phase = END)
          => ((/\ turnManager'.phase = REVIEW
               /\ turnManager'.turnNumber = turnManager.turnNumber + 1)
              <=> status' = IN_PROGRESS)]_vars

\* C39: in every reachable state the step belongs to the phase: a Review
\* step in Review, a Ready step in Ready, CombatStart in Combat, TurnEnd
\* in End
C39_StepOfPhase ==
  /\ turnManager.phase \in {REVIEW, READY, COMBAT, END}
  /\ turnManager.phase = REVIEW
       => turnManager.step \in {REVIEW_START, REVIEW_DISCARD, REVIEW_DRAW}
  /\ turnManager.phase = READY
       => turnManager.step \in {READY_START, READY_CARDS, READY_MAIN}
  /\ turnManager.phase = COMBAT => turnManager.step = COMBAT_START
  /\ turnManager.phase = END => turnManager.step = TURN_END

\* processTurn has processed the Ready phase and left it at its main step
C39_Witness ==
  /\ lastCall.op = "processTurn"
  /\ readied
  /\ turnManager.phase = READY
  /\ turnManager.step = READY_MAIN

====
